---- MODULE Spec2Model ----
(***************************************************************************)
(* Model of internal/entity/marker.go: the persisted marker rows, the     *)
(* face and subject rows they refer to, and the operations that reconcile *)
(* them (UpdateOrCreateMarker, Save, Create, SaveForm, SetFace,           *)
(* SyncSubject, ClearFace, ClearSubject, GetSubject, GetFace).            *)
(*                                                                         *)
(* Representation.  Positions and sizes (float32 in the source) are kept  *)
(* in hundredths: X = 6 stands for 0.06, One = 100 for 1.0, d = 7 for     *)
(* 0.07.  Distances between embeddings are integers (the vectors used are *)
(* chosen so that their Euclidean distance is integral).  Time is a       *)
(* logical clock: TimePointer() returns the next tick.  A marker method   *)
(* is always applied to a marker freshly loaded by FindMarker, so its     *)
(* cached Subject and Face pointers are nil on entry; a Face is passed by *)
(* pointer and the caller keeps it across calls, so the in-memory faces   *)
(* (fmem) are state of their own.  Storage reads always succeed; storage  *)
(* writes fail when the call's failAt input names them.                   *)
(*                                                                         *)
(* A call runs either alone (the Do... steps: the whole operation in one  *)
(* step) or next to the call of another worker (the Start... steps): then *)
(* it reads when it starts and its storage writes are carried out one SQL *)
(* statement at a time, each against the rows as they are by then.        *)
(***************************************************************************)
EXTENDS Integers, Sequences, FiniteSets, TLC

VARIABLES
    markers,    \* the markers table: row i is the marker with ID = i
    faces,      \* the faces table: face id -> row
    subjects,   \* the subjects table: subject uid -> row
    fmem,       \* the Face structs the caller holds: face id -> struct
    now,        \* the clock TimePointer() reads
    call,       \* the last call: its operation, arguments and results
    pending     \* the calls in flight: worker -> the call it is running

vars == <<markers, faces, subjects, fmem, now, call, pending>>

----------------------------------------------------------------------------
(* Bounds of the model. *)

MaxMarkers == 2
MaxTime == 3

----------------------------------------------------------------------------
(* Constants of the program. *)

MarkerUnknown == ""
MarkerFace == "face"
MarkerLabel == "label"

\* The provenance tags are declared outside marker.go.  The automatic tag is
\* the empty string: the subject_src column defaults to '' (line 31), SetFace
\* adopts a face's subject without setting SubjectSrc, and ClearFace and
\* SyncSubject then test that value against SrcAuto (lines 404 and 268).
SrcDefault == "default"
SrcAuto == ""
SrcImage == "image"
SrcManual == "manual"
SrcMarker == "marker"

\* 1.0 and the tolerance 0.07, in hundredths.
One == 100
d == 7

ClusterMinSize == 80
ClusterMinScore == 15

\* Provenance priority: default < automatic < detector-image < manual;
\* a source the table does not hold has priority 0 (Go's zero value).
SrcPriority(src) ==
    CASE src = SrcManual -> 64
      [] src = SrcImage -> 8
      [] src = SrcMarker -> 8
      [] src = SrcAuto -> 2
      [] src = SrcDefault -> 1
      [] OTHER -> 0

NoFace == ""
NoSubject == ""
NoError == ""

----------------------------------------------------------------------------
(* Embeddings: a sequence of integer vectors. *)

RECURSIVE SumSq(_, _, _)
SumSq(a, b, i) ==
    IF i > Len(a) THEN 0
    ELSE (a[i] - b[i]) * (a[i] - b[i]) + SumSq(a, b, i + 1)

\* Integer square root.
Sqrt(n) == CHOOSE r \in 0..n : r * r <= n /\ (r + 1) * (r + 1) > n

EuclideanDistance(a, b) == Sqrt(SumSq(a, b, 1))

----------------------------------------------------------------------------
(* The storage context a call runs in.  c.w counts the storage writes the *)
(* call has issued; the write numbered c.failAt fails (0: none fails).    *)

Ctx(ms, fs, ss, t, failAt, rep) ==
    [markers |-> ms, faces |-> fs, subjects |-> ss, now |-> t,
     w |-> 0, failAt |-> failAt, rep |-> rep, reports |-> << >>,
     log |-> << >>]

Fails(c) == c.w + 1 = c.failAt
Issued(c) == [c EXCEPT !.w = @ + 1]

Least(S) == CHOOSE i \in S : \A j \in S : i <= j

\* The value v under a name in body (a local variable of the code).
With(v, body(_)) == body(v)

\* The fields named in vals replaced, the others kept.
Merge(r, vals) ==
    [k \in DOMAIN r |-> IF k \in DOMAIN vals THEN vals[k] ELSE r[k]]

\* A storage write: one SQL statement.  id: the marker it names (0: none),
\* key: the face or subject it names, vals: the values it writes.
Stmt(stmt, id, key, vals) ==
    [stmt |-> stmt, id |-> id, key |-> key, vals |-> vals]

\* The column defaults (FaceDist -1, Size -1) an INSERT gives a zero field.
ApplyDefaults(m) ==
    [m EXCEPT !.FaceDist = IF @ = 0 THEN -1 ELSE @,
              !.Size = IF @ = 0 THEN -1 ELSE @]

\* The markers table after the statement s.
ExecMarkers(ms, s) ==
    CASE s.stmt = "InsertMarker" ->
            Append(ms, [ApplyDefaults(s.vals) EXCEPT !.ID = Len(ms) + 1])
      [] s.stmt = "SaveMarker" ->
            [i \in DOMAIN ms |-> IF i = s.id THEN s.vals ELSE ms[i]]
      [] s.stmt = "UpdateMarker" ->
            [i \in DOMAIN ms |->
                IF i = s.id THEN Merge(ms[i], s.vals) ELSE ms[i]]
      [] s.stmt = "UpdateRelated" ->
            \* WHERE id <> ? AND face_id = ? AND subject_src = SrcAuto
            \* AND subject_uid <> ?
            [i \in DOMAIN ms |->
                IF /\ ms[i].ID # s.id
                   /\ ms[i].FaceID = s.key
                   /\ ms[i].SubjectSrc = SrcAuto
                   /\ ms[i].SubjectUID # s.vals
                THEN [ms[i] EXCEPT !.SubjectUID = s.vals,
                                   !.SubjectSrc = SrcAuto]
                ELSE ms[i]]
      [] OTHER -> ms

\* The faces table after the statement s.
ExecFaces(fs, s) ==
    CASE s.stmt = "InsertFace" -> fs @@ (s.key :> s.vals)
      [] s.stmt = "UpdateFace" ->
            [k \in DOMAIN fs |->
                IF k = s.key THEN [fs[k] EXCEPT !.SubjectUID = s.vals]
                ELSE fs[k]]
      [] s.stmt = "UpdateKnownFace" ->
            \* WHERE id = ? AND subject_uid = ''
            [k \in DOMAIN fs |->
                IF k = s.key /\ fs[k].SubjectUID = ""
                THEN [fs[k] EXCEPT !.SubjectUID = s.vals]
                ELSE fs[k]]
      [] OTHER -> fs

\* The subjects table after the statement s.
ExecSubjects(ss, s) ==
    CASE s.stmt = "InsertSubject" -> ss @@ (s.key :> s.vals)
      [] s.stmt = "UpdateName" ->
            [k \in DOMAIN ss |->
                IF k = s.key THEN [ss[k] EXCEPT !.SubjectName = s.vals]
                ELSE ss[k]]
      [] OTHER -> ss

\* The statement s issued in the context c and carried out.
Exec(c, s) ==
    [Issued(c) EXCEPT !.markers = ExecMarkers(@, s),
                      !.faces = ExecFaces(@, s),
                      !.subjects = ExecSubjects(@, s),
                      !.log = Append(@, s)]

\* TimePointer(): the current time.
TimePointer(c) == c.now + 1
Tick(c) == [c EXCEPT !.now = @ + 1]

----------------------------------------------------------------------------
(* Marker. *)

NewMarker(fileID, subjectUID, markerSrc, markerType, x, y, w, h) ==
    [ID |-> 0, FileID |-> fileID, MarkerType |-> markerType,
     MarkerSrc |-> markerSrc, MarkerName |-> "", SubjectUID |-> subjectUID,
     SubjectSrc |-> "", FaceID |-> NoFace, FaceDist |-> 0,
     Embeddings |-> << >>, Landmarks |-> 0,
     X |-> x, Y |-> y, W |-> w, H |-> h, Size |-> 0, Score |-> 0,
     MarkerInvalid |-> FALSE, MatchedAt |-> 0]

\* f: a detection [X, Y, W, H, Embeddings, Landmarks, Size, Score].
NewFaceMarker(f, fileID, refUID) ==
    [NewMarker(fileID, refUID, SrcImage, MarkerFace, f.X, f.Y, f.W, f.H)
        EXCEPT !.MatchedAt = 0, !.FaceDist = -1,
               !.Embeddings = f.Embeddings, !.Landmarks = f.Landmarks,
               !.Size = f.Size, !.Score = f.Score]

\* Marker.Updates: the named columns of the marker's row, and the same
\* fields of the struct.
MarkerUpdates(c, m, vals) ==
    LET m2 == Merge(m, vals) IN
    IF Fails(c)
    THEN [c |-> Issued(c), m |-> m2, err |-> "storage"]
    ELSE [c |-> Exec(c, Stmt("UpdateMarker", m.ID, "", vals)),
          m |-> m2, err |-> NoError]

\* The range test alone, without the test for a zero coordinate.
InvalidPositionRangeOnly(m) ==
    m.X > One \/ m.Y > One \/ m.X < -One \/ m.Y < -One

InvalidPosition(m) ==
    m.X = 0 \/ m.Y = 0 \/ m.X > One \/ m.Y > One \/ m.X < -One \/ m.Y < -One

\* Db().Create(m): INSERT with the next ID.
DbCreate(c, m) ==
    IF Fails(c)
    THEN [c |-> Issued(c), m |-> m, err |-> "storage"]
    ELSE LET row == [ApplyDefaults(m) EXCEPT !.ID = Len(c.markers) + 1]
         IN [c |-> Exec(c, Stmt("InsertMarker", 0, "", m)),
             m |-> row, err |-> NoError]

\* Db().Save(m): UPDATE of every column of the row, INSERT without an ID.
DbSave(c, m) ==
    IF m.ID = 0 THEN DbCreate(c, m)
    ELSE IF Fails(c)
    THEN [c |-> Issued(c), m |-> m, err |-> "storage"]
    ELSE [c |-> Exec(c, Stmt("SaveMarker", m.ID, "", m)),
          m |-> m, err |-> NoError]

Save(c, m) ==
    IF InvalidPosition(m)
    THEN [c |-> c, m |-> m, err |-> "invalid position"]
    ELSE DbSave(c, m)

Create(c, m) ==
    IF InvalidPosition(m)
    THEN [c |-> c, m |-> m, err |-> "invalid position"]
    ELSE DbCreate(c, m)

FindMarker(ms, id) == ms[id]

----------------------------------------------------------------------------
(* UpdateOrCreateMarker. *)

\* WHERE file_id = ? AND x > ? AND x < ? AND y > ? AND y < ?
InWindow(row, m) ==
    /\ row.FileID = m.FileID
    /\ row.X > m.X - d /\ row.X < m.X + d
    /\ row.Y > m.Y - d /\ row.Y < m.Y + d

\* First(&result): the matching row with the lowest ID, 0 when none.
NearDuplicate(ms, m) ==
    LET hits == {i \in 1..Len(ms) : InWindow(ms[i], m)}
    IN IF hits = {} THEN 0 ELSE Least(hits)

\* The priority test the other way round.
IgnoreReversed(m, result) ==
    SrcPriority(m.MarkerSrc) > SrcPriority(result.MarkerSrc)

\* The candidate is ignored: the row found has the higher priority.
Ignore(m, result) == SrcPriority(m.MarkerSrc) < SrcPriority(result.MarkerSrc)

OverwriteValues(m) ==
    [X |-> m.X, Y |-> m.Y, W |-> m.W, H |-> m.H, Score |-> m.Score,
     Landmarks |-> m.Landmarks, Embeddings |-> m.Embeddings,
     SubjectUID |-> m.SubjectUID]

UpdateOrCreateMarker(c, m) ==
    LET found == NearDuplicate(c.markers, m) IN
    IF m.ID > 0
    THEN LET r == Save(c, m)
         IN [c |-> r.c, ret |-> m, err |-> r.err, path |-> "save"]
    ELSE IF found # 0
    THEN LET result == c.markers[found] IN
         IF Ignore(m, result)
         THEN [c |-> c, ret |-> result, err |-> NoError, path |-> "ignore"]
         ELSE LET u == MarkerUpdates(c, result, OverwriteValues(m))
              IN [c |-> u.c, ret |-> u.m, err |-> u.err, path |-> "overwrite"]
    ELSE LET r == Create(c, m)
         IN [c |-> r.c, ret |-> r.m, err |-> r.err, path |-> "create"]

----------------------------------------------------------------------------
(* Subject (the subject store). *)

\* The uids a new subject gets, in the order they are given out.
SubjectUIDs == <<"A", "B">>

FindSubject(c, uid) ==
    IF uid \in DOMAIN c.subjects THEN uid ELSE NoSubject

\* FirstOrCreateSubject: the subject of that name, created when there is
\* none; no subject when the name is empty or the INSERT fails.
FirstOrCreateSubject(c, name) ==
    LET named == {i \in DOMAIN SubjectUIDs :
                     /\ SubjectUIDs[i] \in DOMAIN c.subjects
                     /\ c.subjects[SubjectUIDs[i]].SubjectName = name}
        free == {i \in DOMAIN SubjectUIDs :
                    SubjectUIDs[i] \notin DOMAIN c.subjects}
    IN IF name = "" THEN [c |-> c, subj |-> NoSubject]
       ELSE IF named # {}
       THEN [c |-> c, subj |-> SubjectUIDs[Least(named)]]
       ELSE IF Fails(c) \/ free = {}
       THEN [c |-> Issued(c), subj |-> NoSubject]
       ELSE LET u == SubjectUIDs[Least(free)]
            IN [c |-> Exec(c, Stmt("InsertSubject", 0, u,
                                   [SubjectName |-> name])),
                subj |-> u]

\* Subject.UpdateName.
UpdateName(c, uid, name) ==
    IF Fails(c)
    THEN [c |-> Issued(c), err |-> "storage"]
    ELSE [c |-> Exec(c, Stmt("UpdateName", 0, uid, name)),
          err |-> NoError]

----------------------------------------------------------------------------
(* Face. *)

NilFace == [ID |-> "<nil>", SubjectUID |-> "", Embedding |-> << >>]

\* The face id is derived from the face's embedding.
FaceKey(v) ==
    CASE v = <<0, 0>> -> "F1"
      [] v = <<3, 4>> -> "F2"
      [] OTHER -> "F3"

FindFace(c, id) ==
    IF id # NoFace /\ id \in DOMAIN c.faces THEN c.faces[id] ELSE NilFace

\* Face.Update("SubjectUID", uid): the column of the face's row, and the
\* field of the struct.
FaceUpdate(c, f, uid) ==
    LET f2 == [f EXCEPT !.SubjectUID = uid] IN
    IF Fails(c)
    THEN [c |-> Issued(c), f |-> f2, err |-> "storage"]
    ELSE [c |-> Exec(c, Stmt("UpdateFace", 0, f.ID, uid)),
          f |-> f2, err |-> NoError]

\* Face.ReportCollision: the reporter is called with the embeddings; what
\* it answers is the call's input c.rep.
ReportCollision(c, f, embeddings) ==
    [c |-> [c EXCEPT !.reports = Append(@, <<f.ID, embeddings>>)],
     reported |-> c.rep.reported,
     err |-> IF c.rep.fails THEN "collision" ELSE NoError]

\* NewFace: no face without an embedding.
NewFace(subjectUID, embeddings) ==
    IF Len(embeddings) = 0 THEN NilFace
    ELSE [ID |-> FaceKey(embeddings[1]), SubjectUID |-> subjectUID,
          Embedding |-> embeddings[1]]

\* Face.Create: INSERT; the id is the primary key.
FaceCreate(c, f) ==
    IF Fails(c) \/ f.ID \in DOMAIN c.faces
    THEN [c |-> Issued(c), err |-> "storage"]
    ELSE [c |-> Exec(c, Stmt("InsertFace", 0, f.ID, f)),
          err |-> NoError]

\* Every embedding is compared, whatever its length.
AnyLength(e, faceEmbedding) == TRUE

\* The embedding has the length of the face's embedding.
SameLength(e, faceEmbedding) == Len(e) = Len(faceEmbedding)

\* The smallest distance from the face's embedding to the embeddings of
\* the same length, from dist.
RECURSIVE MinDist(_, _, _, _)
MinDist(embeddings, faceEmbedding, i, dist) ==
    IF i > Len(embeddings) THEN dist
    ELSE IF ~SameLength(embeddings[i], faceEmbedding)
    THEN MinDist(embeddings, faceEmbedding, i + 1, dist)
    ELSE LET e == EuclideanDistance(embeddings[i], faceEmbedding)
         IN MinDist(embeddings, faceEmbedding, i + 1,
                    IF e < dist \/ dist < 0 THEN e ELSE dist)

\* Face.Match: an embedding of the marker lies within the match radius.
MatchRadius == 1

Match(f, embeddings) ==
    LET dist == MinDist(embeddings, f.Embedding, 1, -1)
    IN [ok |-> dist >= 0 /\ dist <= MatchRadius, dist |-> dist]

----------------------------------------------------------------------------
(* GetSubject, GetFace, SyncSubject, SetFace. *)

RECURSIVE SetFace(_, _, _, _)

\* GetSubject: the marker's subject (its uid), NoSubject for nil.
GetSubject(c, m) ==
    IF m.SubjectUID = "" /\ m.MarkerName # ""
    THEN With(FirstOrCreateSubject(c, m.MarkerName), LAMBDA s :
            IF s.subj = NoSubject
            THEN [c |-> s.c, m |-> m, subj |-> NoSubject]
            ELSE [c |-> s.c,
                  m |-> [m EXCEPT !.SubjectUID = s.subj,
                                  !.SubjectSrc = SrcManual],
                  subj |-> s.subj])
    ELSE [c |-> c, m |-> m, subj |-> FindSubject(c, m.SubjectUID)]

\* Face.MatchMarkers(Faceless): SetFace on every valid face marker without
\* a face that the face matches, in the order of their IDs, from row i.
RECURSIVE MatchMarkers(_, _, _)
MatchMarkers(c, f, i) ==
    IF i > Len(c.markers) THEN [c |-> c, f |-> f, err |-> NoError]
    ELSE With(FindMarker(c.markers, i), LAMBDA marker :
         With(Match(f, marker.Embeddings), LAMBDA mt :
            IF marker.MarkerInvalid \/ marker.MarkerType # MarkerFace
               \/ marker.FaceID # NoFace \/ ~mt.ok
            THEN MatchMarkers(c, f, i + 1)
            ELSE With(SetFace(c, marker, f, mt.dist), LAMBDA r :
                    IF r.err # NoError
                    THEN [c |-> r.c, f |-> r.f, err |-> r.err]
                    ELSE MatchMarkers(r.c, r.f, i + 1))))

\* The size test alone, without the test of the score.
TooSmall(m) == m.Size < ClusterMinSize

\* The marker is of too low a quality to add a face for it.
LowQualityMarker(m) == m.Size < ClusterMinSize \/ m.Score < ClusterMinScore

\* GetFace: the marker's face, NilFace for nil.  path: "low" (under the
\* thresholds), "nil" (no face made), "new" (a face made), "find".
GetFace(c, m) ==
    IF m.FaceID = NoFace /\ m.SubjectSrc = SrcManual
    THEN IF LowQualityMarker(m)
         THEN [c |-> c, m |-> m, f |-> NilFace, path |-> "low"]
         ELSE With(NewFace(m.SubjectUID, m.Embeddings), LAMBDA f :
              IF f = NilFace
              THEN [c |-> c, m |-> m, f |-> NilFace, path |-> "nil"]
              ELSE With(FaceCreate(c, f), LAMBDA cr :
                   IF cr.err # NoError
                   THEN [c |-> cr.c, m |-> m, f |-> NilFace, path |-> "nil"]
                   ELSE With(MatchMarkers(cr.c, f, 1), LAMBDA mm :
                        [c |-> mm.c,
                         m |-> [m EXCEPT !.FaceID = mm.f.ID],
                         f |-> mm.f, path |-> "new"])))
    ELSE [c |-> c, m |-> m, f |-> FindFace(c, m.FaceID), path |-> "find"]

\* UPDATE faces SET subject_uid = ? WHERE id = ? AND subject_uid = ''
UpdateKnownFace(c, m) ==
    IF Fails(c)
    THEN [c |-> Issued(c), err |-> "storage (update known face)"]
    ELSE [c |-> Exec(c, Stmt("UpdateKnownFace", 0, m.FaceID, m.SubjectUID)),
          err |-> NoError]

\* UPDATE markers SET subject_uid = ?, subject_src = SrcAuto WHERE id <> ?
\* AND face_id = ? AND subject_src = SrcAuto AND subject_uid <> ?
UpdateRelatedMarkers(c, m) ==
    IF Fails(c)
    THEN [c |-> Issued(c), err |-> "storage (update related markers)"]
    ELSE [c |-> Exec(c, Stmt("UpdateRelated", m.ID, m.FaceID,
                             m.SubjectUID)),
          err |-> NoError]

SyncSubject(c, m, updateRelated) ==
    IF m.MarkerType # MarkerFace THEN [c |-> c, m |-> m, err |-> NoError]
    ELSE
    With(GetSubject(c, m), LAMBDA g :
    IF g.subj = NoSubject THEN [c |-> g.c, m |-> g.m, err |-> NoError]
    ELSE
    \* Update subject with marker name?
    With(IF \/ g.m.MarkerName = ""
            \/ g.c.subjects[g.subj].SubjectName = g.m.MarkerName
            \/ (/\ g.c.subjects[g.subj].SubjectName # ""
                /\ g.m.SubjectSrc # SrcManual)
         THEN [c |-> g.c, err |-> NoError]
         ELSE UpdateName(g.c, g.subj, g.m.MarkerName), LAMBDA n :
    IF n.err # NoError THEN [c |-> n.c, m |-> g.m, err |-> n.err]
    ELSE
    \* Create known face for subject?
    With(IF g.m.FaceID # NoFace \/ g.m.SubjectSrc # SrcManual
         THEN [c |-> n.c, m |-> g.m]
         ELSE With(GetFace(n.c, g.m), LAMBDA gf :
                  [c |-> gf.c,
                   m |-> IF gf.f # NilFace
                         THEN [gf.m EXCEPT !.FaceID = gf.f.ID]
                         ELSE gf.m]), LAMBDA x :
    \* Update related markers?
    IF x.m.FaceID = NoFace \/ x.m.SubjectUID = ""
    THEN [c |-> x.c, m |-> x.m, err |-> NoError]
    ELSE
    With(UpdateKnownFace(x.c, x.m), LAMBDA k :
    IF k.err # NoError THEN [c |-> k.c, m |-> x.m, err |-> k.err]
    ELSE IF ~updateRelated THEN [c |-> k.c, m |-> x.m, err |-> NoError]
    ELSE With(UpdateRelatedMarkers(k.c, x.m), LAMBDA r :
            [c |-> r.c, m |-> x.m, err |-> r.err])))))

\* The collision test with the comparison of the subjects inverted.
CollidesOnEqual(m, f) ==
    ~(\/ m.SubjectSrc # SrcManual
      \/ f.SubjectUID = ""
      \/ m.SubjectUID = ""
      \/ f.SubjectUID # m.SubjectUID)

\* The marker's subject was set manually and differs from the face's.
Collides(m, f) ==
    ~(\/ m.SubjectSrc # SrcManual
      \/ f.SubjectUID = ""
      \/ m.SubjectUID = ""
      \/ f.SubjectUID = m.SubjectUID)

\* Marker.Updates of the match: the fields SetFace stores.
Matching(m) ==
    [FaceID |-> m.FaceID, FaceDist |-> m.FaceDist,
     SubjectUID |-> m.SubjectUID, SubjectSrc |-> m.SubjectSrc,
     MatchedAt |-> m.MatchedAt]

SetFace(c, m, f, dist) ==
    IF f = NilFace
    THEN [c |-> c, m |-> m, f |-> f, updated |-> FALSE, err |-> "face is nil",
          path |-> "invalid"]
    ELSE IF m.MarkerType # MarkerFace
    THEN [c |-> c, m |-> m, f |-> f, updated |-> FALSE,
          err |-> "not a face marker", path |-> "invalid"]
    ELSE IF Collides(m, f)
    THEN With(ReportCollision(c, f, m.Embeddings), LAMBDA rc :
            [c |-> rc.c, m |-> m, f |-> f, updated |-> FALSE, err |-> rc.err,
             path |-> "collision"])
    ELSE
    \* Update face with known subject from marker?
    With(IF f.SubjectUID # "" \/ m.SubjectUID = ""
         THEN [c |-> c, f |-> f, err |-> NoError]
         ELSE FaceUpdate(c, f, m.SubjectUID), LAMBDA a :
    IF a.err # NoError
    THEN [c |-> a.c, m |-> m, f |-> a.f, updated |-> FALSE, err |-> a.err,
          path |-> "face"]
    ELSE IF m.SubjectUID = a.f.SubjectUID /\ m.FaceID = a.f.ID
    THEN \* Skip update if the same face is already set.
         With(Tick(a.c), LAMBDA t :
         With(MarkerUpdates(t, [m EXCEPT !.MatchedAt = t.now],
                            [MatchedAt |-> t.now]), LAMBDA u :
            [c |-> u.c, m |-> u.m, f |-> a.f, updated |-> FALSE,
             err |-> u.err, path |-> "same"]))
    ELSE
    With([m EXCEPT !.FaceID = a.f.ID,
                   !.FaceDist = IF dist < 0
                                THEN MinDist(m.Embeddings, a.f.Embedding,
                                             1, dist)
                                ELSE dist,
                   !.SubjectUID = IF a.f.SubjectUID # ""
                                  THEN a.f.SubjectUID ELSE @], LAMBDA m1 :
    With(SyncSubject(a.c, m1, FALSE), LAMBDA s :
    IF s.err # NoError
    THEN [c |-> s.c, m |-> s.m, f |-> a.f, updated |-> FALSE, err |-> s.err,
          path |-> "sync"]
    ELSE
    \* Update face subject?
    With(IF s.m.SubjectUID = "" \/ a.f.SubjectUID # s.m.SubjectUID
         THEN [c |-> s.c, f |-> a.f, err |-> NoError]
         ELSE FaceUpdate(s.c, a.f, s.m.SubjectUID), LAMBDA b :
    IF b.err # NoError
    THEN [c |-> b.c, m |-> s.m, f |-> b.f, updated |-> FALSE, err |-> b.err,
          path |-> "face"]
    ELSE
    With(Tick(b.c), LAMBDA t :
    With([s.m EXCEPT !.MatchedAt = t.now], LAMBDA m3 :
    With(MarkerUpdates(t, m3, Matching(m3)), LAMBDA u :
        [c |-> u.c, m |-> u.m, f |-> b.f,
         updated |-> \/ s.m.FaceID # m.FaceID
                     \/ s.m.SubjectUID # m.SubjectUID
                     \/ s.m.SubjectSrc # m.SubjectSrc,
         err |-> u.err, path |-> "match"])))))))

----------------------------------------------------------------------------
(* SaveForm, ClearSubject, ClearFace. *)

\* strings.TrimSpace, txt.Title and txt.Clip on the names a form holds
\* (all shorter than txt.ClipDefault).
TrimSpace(s) == IF s = " " THEN "" ELSE s
Clip(s) == s
Title(s) == IF s = "alice" THEN "Alice" ELSE IF s = "bob" THEN "Bob" ELSE s

\* f: a form [MarkerInvalid, SubjectSrc, MarkerName].
SaveForm(c, m, f) ==
    With([m EXCEPT !.MarkerInvalid = f.MarkerInvalid], LAMBDA m1 :
    With(IF ~m1.MarkerInvalid /\ m1.Score < 100
         THEN [m1 EXCEPT !.Score = 100] ELSE m1, LAMBDA m2 :
    IF f.SubjectSrc = SrcManual /\ TrimSpace(f.MarkerName) # ""
    THEN With(SyncSubject(c, [m2 EXCEPT
                                 !.SubjectSrc = SrcManual,
                                 !.MarkerName = Title(Clip(f.MarkerName))],
                          TRUE), LAMBDA s :
            IF s.err # NoError THEN [c |-> s.c, m |-> s.m, err |-> s.err]
            ELSE Save(s.c, s.m))
    ELSE IF m2 # m THEN Save(c, m2)
    ELSE [c |-> c, m |-> m2, err |-> NoError]))

ClearedSubject(src) ==
    [MarkerName |-> "", FaceID |-> NoFace, FaceDist |-> -1,
     SubjectUID |-> "", SubjectSrc |-> src]

ClearSubject(c, m, src) ==
    With(FindFace(c, m.FaceID), LAMBDA face :
    IF face = NilFace
    THEN [c |-> c, m |-> Merge(m, ClearedSubject(src)), err |-> NoError]
    ELSE With(ReportCollision(c, face, m.Embeddings), LAMBDA rc :
         IF rc.err # NoError THEN [c |-> rc.c, m |-> m, err |-> rc.err]
         ELSE With(MarkerUpdates(rc.c, m, ClearedSubject(src)), LAMBDA u :
              IF u.err # NoError
              THEN [c |-> u.c, m |-> u.m, err |-> u.err]
              ELSE [c |-> u.c, m |-> Merge(m, ClearedSubject(src)),
                    err |-> NoError])))

\* Matched: UpdateColumns(MatchedAt).
Matched(c, m) ==
    LET t == Tick(c)
    IN MarkerUpdates(t, [m EXCEPT !.MatchedAt = t.now], [MatchedAt |-> t.now])

\* The subject removed whatever its provenance.
RemoveSubjectAlways(m) == TRUE

\* Remove subject if set automatically.
RemoveSubject(m) == m.SubjectSrc = SrcAuto

ClearFace(c, m) ==
    IF m.FaceID = NoFace
    THEN LET r == Matched(c, m)
         IN [c |-> r.c, m |-> r.m, updated |-> FALSE, err |-> r.err]
    ELSE
    LET t == Tick(c)
        m1 == [m EXCEPT !.FaceID = NoFace, !.MatchedAt = t.now]
        u == IF RemoveSubject(m1)
             THEN MarkerUpdates(t, [m1 EXCEPT !.SubjectUID = ""],
                      [FaceID |-> NoFace, FaceDist |-> -1, SubjectUID |-> "",
                       MatchedAt |-> t.now])
             ELSE MarkerUpdates(t, m1,
                      [FaceID |-> NoFace, FaceDist |-> -1,
                       MatchedAt |-> t.now])
    IN [c |-> u.c, m |-> u.m, updated |-> TRUE, err |-> u.err]

----------------------------------------------------------------------------
(* Inputs. *)

MaxFailAt == 1

E1 == << <<0, 0>> >>
E2 == << <<7>>, <<3, 4>> >>
E3 == << <<1>>, <<6, 8>>, <<3, 4>> >>
E4 == << <<1>> >>

FileIDs == {1}
FaceIDs == {"F1"}
Srcs == {SrcAuto, SrcImage, SrcManual}
RefUIDs == {"", "B"}

\* What the detector hands over: a region, embeddings, landmarks, a pixel
\* size and a score (quals: <<size, score>> pairs).
Detections(pos, embs, quals) ==
    {[X |-> p[1], Y |-> p[2], W |-> 10, H |-> 10, Embeddings |-> e,
      Landmarks |-> 1, Size |-> q[1], Score |-> q[2]] :
        p \in pos, e \in embs, q \in quals}

\* New markers (ID = 0) of a detection.
FaceCandidates(pos, embs, quals, refs) ==
    {NewFaceMarker(f, file, ref) :
        f \in Detections(pos, embs, quals), file \in FileIDs, ref \in refs}

\* New markers (ID = 0) of NewMarker.
Candidates(pos, srcs, refs) ==
    {NewMarker(file, ref, src, MarkerFace, p[1], p[2], 10, 10) :
        file \in FileIDs, ref \in refs, src \in srcs, p \in pos}

\* New label markers (ID = 0) of NewMarker.
LabelCandidates(pos) ==
    {NewMarker(file, "", SrcImage, MarkerLabel, p[1], p[2], 10, 10) :
        file \in FileIDs, p \in pos}

\* A persisted marker, loaded and moved.
Moved(ms, pos) ==
    {[FindMarker(ms, id) EXCEPT !.X = p[1], !.Y = p[2]] :
        id \in 1..Len(ms), p \in pos}

Forms(invs, srcs, names) ==
    {[MarkerInvalid |-> inv, SubjectSrc |-> src, MarkerName |-> name] :
        inv \in invs, src \in srcs, name \in names}

Reporters == [reported : BOOLEAN, fails : BOOLEAN]
NoReporter == [reported |-> FALSE, fails |-> FALSE]

UnknownMarker == NewMarker(0, "", SrcDefault, MarkerUnknown, 0, 0, 0, 0)

\* The record of a call: the operation, the ID of the persisted marker it
\* was called on (0: none), the marker struct handed in when it is not a
\* persisted one as loaded, the face struct and the other argument handed
\* in, and what came back: the marker struct as the call leaves it, the
\* updated flag, the error, the branch taken, the collision reports made.
\* The branches of SetFace: "invalid" (an argument rejected), "collision"
\* (the conflict check), "face" (a face update failed), "same" (the face is
\* already set), "sync" (SyncSubject failed), "match" (the match stored).
Call(op, id, m, f, arg, r) ==
    [op |-> op, id |-> id, m |-> m, f |-> f, arg |-> arg,
     ret |-> r.ret, updated |-> r.updated, err |-> r.err,
     path |-> r.path, reports |-> r.c.reports]

\* The storage as the call leaves it.
Commit(c) ==
    /\ Len(c.markers) <= MaxMarkers
    /\ c.now <= MaxTime
    /\ markers' = c.markers
    /\ faces' = c.faces
    /\ subjects' = c.subjects
    /\ now' = c.now
    /\ pending' = pending

Db(failAt, rep) == Ctx(markers, faces, subjects, now, failAt, rep)

----------------------------------------------------------------------------
(* The operations as steps. *)

DoUpdateOrCreateMarker(m, failAt) ==
    LET r == UpdateOrCreateMarker(Db(failAt, NoReporter), m)
    IN /\ Commit(r.c)
       /\ call' = Call("UpdateOrCreateMarker", m.ID, m, NilFace, 0,
                       [c |-> r.c, ret |-> r.ret, updated |-> FALSE,
                        err |-> r.err, path |-> r.path])
       /\ UNCHANGED fmem

DoSave(m, failAt) ==
    LET r == Save(Db(failAt, NoReporter), m)
    IN /\ Commit(r.c)
       /\ call' = Call("Save", m.ID, m, NilFace, 0,
                       [c |-> r.c, ret |-> r.m, updated |-> FALSE,
                        err |-> r.err, path |-> ""])
       /\ UNCHANGED fmem

DoCreate(m, failAt) ==
    LET r == Create(Db(failAt, NoReporter), m)
    IN /\ Commit(r.c)
       /\ call' = Call("Create", m.ID, m, NilFace, 0,
                       [c |-> r.c, ret |-> r.m, updated |-> FALSE,
                        err |-> r.err, path |-> ""])
       /\ UNCHANGED fmem

DoSaveForm(id, f, failAt) ==
    LET m == FindMarker(markers, id)
        r == SaveForm(Db(failAt, NoReporter), m, f)
    IN /\ Commit(r.c)
       /\ call' = Call("SaveForm", id, UnknownMarker, NilFace, f,
                       [c |-> r.c, ret |-> r.m, updated |-> FALSE,
                        err |-> r.err, path |-> ""])
       /\ UNCHANGED fmem

\* SaveForm on a marker struct the caller made or changed (m.ID = 0: not
\* persisted yet).
DoSaveFormOn(m, f, failAt) ==
    LET r == SaveForm(Db(failAt, NoReporter), m, f)
    IN /\ Commit(r.c)
       /\ call' = Call("SaveForm", m.ID, m, NilFace, f,
                       [c |-> r.c, ret |-> r.m, updated |-> FALSE,
                        err |-> r.err, path |-> ""])
       /\ UNCHANGED fmem

DoSetFace(id, f, dist, rep, failAt) ==
    LET m == FindMarker(markers, id)
        r == SetFace(Db(failAt, rep), m, f, dist)
    IN /\ Commit(r.c)
       /\ call' = Call("SetFace", id, UnknownMarker, f, dist,
                       [c |-> r.c, ret |-> r.m, updated |-> r.updated,
                        err |-> r.err, path |-> r.path])
       /\ fmem' = [k \in DOMAIN fmem |-> IF k = r.f.ID THEN r.f ELSE fmem[k]]

DoSyncSubject(id, updateRelated, failAt) ==
    LET m == FindMarker(markers, id)
        r == SyncSubject(Db(failAt, NoReporter), m, updateRelated)
    IN /\ Commit(r.c)
       /\ call' = Call("SyncSubject", id, UnknownMarker, NilFace, updateRelated,
                       [c |-> r.c, ret |-> r.m, updated |-> FALSE,
                        err |-> r.err, path |-> ""])
       /\ UNCHANGED fmem

DoClearFace(id, failAt) ==
    LET m == FindMarker(markers, id)
        r == ClearFace(Db(failAt, NoReporter), m)
    IN /\ Commit(r.c)
       /\ call' = Call("ClearFace", id, UnknownMarker, NilFace, 0,
                       [c |-> r.c, ret |-> r.m, updated |-> r.updated,
                        err |-> r.err, path |-> ""])
       /\ UNCHANGED fmem

DoClearSubject(id, src, rep, failAt) ==
    LET m == FindMarker(markers, id)
        r == ClearSubject(Db(failAt, rep), m, src)
    IN /\ Commit(r.c)
       /\ call' = Call("ClearSubject", id, UnknownMarker, NilFace, src,
                       [c |-> r.c, ret |-> r.m, updated |-> FALSE,
                        err |-> r.err, path |-> ""])
       /\ UNCHANGED fmem

\* GetFace on a persisted marker as loaded; the record holds the face
\* returned (NilFace: nil) and the marker struct as the call leaves it.
DoGetFace(id, failAt) ==
    LET m == FindMarker(markers, id)
        r == GetFace(Db(failAt, NoReporter), m)
    IN /\ Commit(r.c)
       /\ call' = Call("GetFace", id, UnknownMarker, r.f, 0,
                       [c |-> r.c, ret |-> r.m, updated |-> FALSE,
                        err |-> NoError, path |-> r.path])
       /\ UNCHANGED fmem

\* The caller loads the faces anew.
LoadFaces ==
    /\ fmem # faces
    /\ fmem' = faces
    /\ call' = [call EXCEPT !.op = "LoadFaces"]
    /\ UNCHANGED <<markers, faces, subjects, now, pending>>

----------------------------------------------------------------------------
(* Calls of two workers side by side. *)

Workers == {"w1", "w2"}

\* A call in flight: the operation and its arguments, the markers as they
\* were when it started, the workers inside a call at that time, the
\* statements it has still to issue and those it has issued.
InFlight(op, id, m, f, arg, before, during, stmts) ==
    [state |-> "running", op |-> op, id |-> id, m |-> m, f |-> f,
     arg |-> arg, before |-> before, during |-> during, stmts |-> stmts,
     done |-> << >>]

Idle ==
    [InFlight("", 0, UnknownMarker, NilFace, 0, << >>, {}, << >>)
        EXCEPT !.state = "idle"]

Free(w) == pending[w].state # "running"

\* No worker is inside a call or holds the outcome of one.
Rested == \A w \in Workers : pending[w] = Idle

\* The call starts: it reads, decides, and has its statements to issue.
Start(w, op, id, m, f, arg, r) ==
    /\ Free(w)
    /\ r.c.now <= MaxTime
    /\ pending' = [pending EXCEPT ![w] =
                      InFlight(op, id, m, f, arg, markers,
                               {v \in Workers : ~Free(v)}, r.c.log)]
    /\ now' = r.c.now
    /\ UNCHANGED <<markers, faces, subjects, call>>

StartUpdateOrCreateMarker(w, m) ==
    LET r == UpdateOrCreateMarker(Db(0, NoReporter), m)
    IN /\ Start(w, "UpdateOrCreateMarker", m.ID, m, NilFace, 0, r)
       /\ UNCHANGED fmem

StartSyncSubject(w, id, updateRelated) ==
    LET r == SyncSubject(Db(0, NoReporter), FindMarker(markers, id),
                         updateRelated)
    IN /\ Start(w, "SyncSubject", id, UnknownMarker, NilFace, updateRelated, r)
       /\ UNCHANGED fmem

StartClearFace(w, id) ==
    LET r == ClearFace(Db(0, NoReporter), FindMarker(markers, id))
    IN /\ Start(w, "ClearFace", id, UnknownMarker, NilFace, 0, r)
       /\ UNCHANGED fmem

StartSetFace(w, id, f, dist) ==
    LET r == SetFace(Db(0, NoReporter), FindMarker(markers, id), f, dist)
    IN /\ Start(w, "SetFace", id, UnknownMarker, f, dist, r)
       /\ fmem' = [k \in DOMAIN fmem |-> IF k = r.f.ID THEN r.f ELSE fmem[k]]

\* The next statement of the call is carried out.
Write(w) ==
    /\ pending[w].state = "running"
    /\ pending[w].stmts # << >>
    /\ LET s == Head(pending[w].stmts)
       IN /\ Len(ExecMarkers(markers, s)) <= MaxMarkers
          /\ markers' = ExecMarkers(markers, s)
          /\ faces' = ExecFaces(faces, s)
          /\ subjects' = ExecSubjects(subjects, s)
          /\ pending' = [pending EXCEPT ![w].stmts = Tail(@),
                                        ![w].done = Append(@, s)]
    /\ UNCHANGED <<fmem, now, call>>

\* The call returns.
Return(w) ==
    /\ pending[w].state = "running"
    /\ pending[w].stmts = << >>
    /\ pending' = [pending EXCEPT ![w].state = "returned"]
    /\ UNCHANGED <<markers, faces, subjects, fmem, now, call>>

\* The workers are done with the calls that have returned.
Forget ==
    /\ \A w \in Workers : Free(w)
    /\ ~Rested
    /\ pending' = [w \in Workers |-> Idle]
    /\ UNCHANGED <<markers, faces, subjects, fmem, now, call>>

----------------------------------------------------------------------------
(* The specification. *)

InitFaces ==
    {[k \in FaceIDs |->
        [ID |-> k, SubjectUID |-> s[k],
         Embedding |-> IF k = "F1" THEN <<0, 0>> ELSE <<3, 4>>]] :
        s \in [FaceIDs -> {"", "B"}]}

Init ==
    /\ markers = << >>
    /\ faces \in InitFaces
    /\ subjects = ("B" :> [SubjectName |-> "Bob"])
    /\ fmem = faces
    /\ now = 0
    /\ pending = [w \in Workers |-> Idle]
    /\ call = [op |-> "", id |-> 0, m |-> UnknownMarker, f |-> NilFace,
               arg |-> 0, ret |-> UnknownMarker, updated |-> FALSE,
               err |-> NoError, path |-> "", reports |-> << >>]

\* Face matching and naming of the markers of one region: every operation,
\* with storage failures and every answer of the collision reporter.
Pos == {<<10, 50>>}
Low == {<<5, 10>>}

Next ==
    \/ \E m \in FaceCandidates(Pos, {E2}, Low, RefUIDs),
          failAt \in 0..MaxFailAt :
            DoUpdateOrCreateMarker(m, failAt)
    \/ \E id \in 1..Len(markers),
          f \in Forms({FALSE}, {SrcAuto, SrcManual}, {"", "alice"}),
          failAt \in 0..MaxFailAt :
            DoSaveForm(id, f, failAt)
    \/ \E id \in 1..Len(markers), k \in DOMAIN fmem, dist \in {-1, 2},
          rep \in Reporters, failAt \in 0..MaxFailAt :
            DoSetFace(id, fmem[k], dist, rep, failAt)
    \/ \E id \in 1..Len(markers), failAt \in 0..MaxFailAt :
            DoClearFace(id, failAt)
    \/ \E id \in 1..Len(markers), src \in {SrcAuto}, rep \in Reporters,
          failAt \in 0..MaxFailAt :
            DoClearSubject(id, src, rep, failAt)
    \/ \E id \in 1..Len(markers), failAt \in 0..MaxFailAt :
            DoSyncSubject(id, TRUE, failAt)
    \/ LoadFaces

Spec == Init /\ [][Next]_vars

\* The matching worker and the naming of the markers of two regions: the
\* worker keeps its Face structs from one SetFace to the next.
PosMatch == {<<10, 50>>, <<30, 50>>}

NextMatch ==
    \/ \E m \in FaceCandidates(PosMatch, {E2}, Low, {""}) :
            DoUpdateOrCreateMarker(m, 0)
    \/ \E id \in 1..Len(markers),
          f \in Forms({FALSE}, {SrcManual}, {"alice", "bob"}) :
            DoSaveForm(id, f, 0)
    \/ \E id \in 1..Len(markers), k \in DOMAIN fmem :
            DoSetFace(id, fmem[k], 2, NoReporter, 0)
    \/ LoadFaces

SpecMatch == Init /\ [][NextMatch]_vars

\* Ingestion: new candidates from the detector (image) and from a user
\* (manual) at positions next to each other, far from each other and zero;
\* markers saved and created at valid, zero and out-of-range positions;
\* persisted markers moved.
PosDedup == {<<0, 50>>, <<6, 50>>, <<12, 50>>, <<18, 50>>}
PosSave == {<<6, 50>>, <<0, 50>>, <<12, 101>>, <<-101, 50>>}
PosMoved == {<<12, 50>>, <<101, 50>>}

DedupCandidates ==
    FaceCandidates(PosDedup, {E1}, Low, {""})
    \cup Candidates(PosDedup, {SrcManual}, {"B"})

SaveCandidates == Candidates(PosSave, {SrcManual}, {""})

NextDedup ==
    \/ \E m \in DedupCandidates \cup Moved(markers, PosMoved) :
            DoUpdateOrCreateMarker(m, 0)
    \/ \E m \in SaveCandidates \cup Moved(markers, PosMoved) :
            DoSave(m, 0)
    \/ \E m \in SaveCandidates :
            DoCreate(m, 0)

SpecDedup == Init /\ [][NextDedup]_vars

----------------------------------------------------------------------------
(* Distances: markers with embeddings of the face's length and of another *)
(* length, and with none of the face's length, named by form and matched  *)
(* to the face without a distance (-1).                                   *)

NextDist ==
    \/ \E m \in FaceCandidates(PosMatch, {E3, E4}, Low, {""}) :
            DoUpdateOrCreateMarker(m, 0)
    \/ \E id \in 1..Len(markers),
          f \in Forms({FALSE}, {SrcManual}, {"alice"}) :
            DoSaveForm(id, f, 0)
    \/ \E id \in 1..Len(markers), k \in DOMAIN fmem :
            DoSetFace(id, fmem[k], -1, NoReporter, 0)
    \/ LoadFaces

SpecDist == Init /\ [][NextDist]_vars

----------------------------------------------------------------------------
(* Collisions: one marker, named by form and matched to the face, with    *)
(* every answer of the collision reporter.                                *)

NextCollide ==
    \/ \E m \in FaceCandidates(Pos, {E2}, Low, RefUIDs),
          failAt \in 0..MaxFailAt :
            DoUpdateOrCreateMarker(m, failAt)
    \/ \E id \in 1..Len(markers),
          f \in Forms({FALSE}, {SrcManual}, {"alice"}),
          failAt \in 0..MaxFailAt :
            DoSaveForm(id, f, failAt)
    \/ \E id \in 1..Len(markers), k \in DOMAIN fmem, dist \in {-1, 2},
          rep \in Reporters, failAt \in 0..MaxFailAt :
            DoSetFace(id, fmem[k], dist, rep, failAt)
    \/ LoadFaces

SpecCollide == Init /\ [][NextCollide]_vars

----------------------------------------------------------------------------
(* Detaching: the markers of two regions named by form, matched to the    *)
(* face and detached from it, with storage failures of the detaching.     *)

NextClear ==
    \/ \E m \in FaceCandidates(PosMatch, {E2}, Low, {""}) :
            DoUpdateOrCreateMarker(m, 0)
    \/ \E id \in 1..Len(markers),
          f \in Forms({FALSE}, {SrcManual}, {"alice"}) :
            DoSaveForm(id, f, 0)
    \/ \E id \in 1..Len(markers), k \in DOMAIN fmem :
            DoSetFace(id, fmem[k], 2, NoReporter, 0)
    \/ \E id \in 1..Len(markers), failAt \in 0..MaxFailAt :
            DoClearFace(id, failAt)
    \/ LoadFaces

SpecClear == Init /\ [][NextClear]_vars

----------------------------------------------------------------------------
(* Rejected arguments: markers at valid, zero and out-of-range positions, *)
(* face and label markers, SetFace with a face and without one.           *)

PosInvalid == {<<6, 50>>, <<0, 50>>, <<101, 50>>}
PosLabel == {<<30, 50>>}

InvalidCandidates ==
    FaceCandidates(PosInvalid, {E2}, Low, {""}) \cup LabelCandidates(PosLabel)

NextInvalid ==
    \/ \E m \in InvalidCandidates \cup Moved(markers, PosInvalid) :
            DoUpdateOrCreateMarker(m, 0)
    \/ \E m \in InvalidCandidates \cup Moved(markers, PosInvalid) :
            DoSave(m, 0)
    \/ \E m \in InvalidCandidates :
            DoCreate(m, 0)
    \/ \E m \in InvalidCandidates \cup Moved(markers, PosInvalid),
          f \in Forms({FALSE}, {SrcManual}, {"alice"}) :
            DoSaveFormOn(m, f, 0)
    \/ \E id \in 1..Len(markers), f \in {NilFace} \cup {fmem[k] : k \in DOMAIN fmem} :
            DoSetFace(id, f, 2, NoReporter, 0)

SpecInvalid == Init /\ [][NextInvalid]_vars

----------------------------------------------------------------------------
(* Failing sub-steps: the operations on one marker, with a storage        *)
(* failure at the first write of a call or at the one after it, and with  *)
(* every answer of the collision reporter.                                *)

FailAts == 0..(MaxFailAt + 1)

NextFail ==
    \/ \E m \in FaceCandidates(Pos, {E2}, Low, RefUIDs) :
            DoUpdateOrCreateMarker(m, 0)
    \/ \E id \in 1..Len(markers),
          f \in Forms({FALSE}, {SrcManual}, {"alice"}), failAt \in FailAts :
            DoSaveForm(id, f, failAt)
    \/ \E id \in 1..Len(markers), k \in DOMAIN fmem, rep \in Reporters,
          failAt \in FailAts :
            DoSetFace(id, fmem[k], 2, rep, failAt)
    \/ \E id \in 1..Len(markers), failAt \in FailAts :
            DoClearFace(id, failAt)
    \/ \E id \in 1..Len(markers), rep \in Reporters, failAt \in FailAts :
            DoClearSubject(id, SrcAuto, rep, failAt)
    \/ LoadFaces

SpecFail == Init /\ [][NextFail]_vars

----------------------------------------------------------------------------
(* Ingestion by two workers: new candidates of one file, next to each     *)
(* other and far from each other.                                         *)

PosRace == {<<10, 50>>, <<12, 50>>, <<30, 50>>}

NextIngest ==
    \/ \E w \in Workers, m \in FaceCandidates(PosRace, {E1}, Low, {""}) :
            StartUpdateOrCreateMarker(w, m)
    \/ \E w \in Workers : Write(w)
    \/ \E w \in Workers : Return(w)

SpecIngest == Init /\ [][NextIngest]_vars

----------------------------------------------------------------------------
(* Making faces: markers of detections under, at and over the quality     *)
(* thresholds, named by form (valid and invalid), and GetFace on them.    *)

Quals ==
    {<<5, 10>>,
     <<ClusterMinSize, ClusterMinScore - 1>>,
     <<ClusterMinSize - 1, ClusterMinScore>>,
     <<ClusterMinSize, ClusterMinScore>>}

NextFace ==
    \/ \E m \in FaceCandidates(Pos, {E2}, Quals, {""}) :
            DoUpdateOrCreateMarker(m, 0)
    \/ \E id \in 1..Len(markers),
          f \in Forms(BOOLEAN, {SrcManual}, {"alice"}), failAt \in FailAts :
            DoSaveForm(id, f, failAt)
    \/ \E id \in 1..Len(markers), failAt \in 0..MaxFailAt :
            DoGetFace(id, failAt)
    \/ \E id \in 1..Len(markers) :
            DoClearFace(id, 0)

SpecFace == Init /\ [][NextFace]_vars

----------------------------------------------------------------------------
(* Siblings: two markers matched to one face and named by form while no   *)
(* worker is inside a call; then SyncSubject on the one by worker w1 and, *)
(* started at any point of it, ClearFace or SetFace on the other by       *)
(* worker w2.                                                              *)

\* The marker has a face and a subject: its SyncSubject pass updates the
\* related markers.
HasFaceAndSubject(m) ==
    m.MarkerType = MarkerFace /\ m.FaceID # NoFace /\ m.SubjectUID # ""

NextSiblings ==
    \/ /\ Rested
       /\ \/ \E m \in FaceCandidates(PosMatch, {E2}, Low, {""}) :
                DoUpdateOrCreateMarker(m, 0)
          \/ \E id \in 1..Len(markers),
                f \in Forms({FALSE}, {SrcManual}, {"alice"}) :
                DoSaveForm(id, f, 0)
          \/ \E id \in 1..Len(markers), k \in DOMAIN fmem :
                DoSetFace(id, fmem[k], 2, NoReporter, 0)
          \/ \E id \in 1..Len(markers) :
                /\ HasFaceAndSubject(markers[id])
                /\ StartSyncSubject("w1", id, TRUE)
    \/ /\ pending["w1"].state = "running"
       /\ pending["w2"] = Idle
       /\ \E id \in 1..Len(markers) \ {pending["w1"].id} :
            \/ StartClearFace("w2", id)
            \/ \E k \in DOMAIN fmem : StartSetFace("w2", id, fmem[k], 2)
    \/ \E w \in Workers : Write(w)
    \/ \E w \in Workers : Return(w)
    \/ Forget
    \/ LoadFaces

SpecSiblings == Init /\ [][NextSiblings]_vars

----------------------------------------------------------------------------
(* Properties. *)

Abs(x) == IF x < 0 THEN -x ELSE x

UOCM == "UpdateOrCreateMarker"

\* The geometry invariant, as the specification states it.
ValidPosition(m) ==
    /\ m.X # 0 /\ m.Y # 0
    /\ -One <= m.X /\ m.X <= One
    /\ -One <= m.Y /\ m.Y <= One

\* Two markers of one file with centers within the tolerance on both axes.
NearEachOther(a, b) ==
    a.FileID = b.FileID /\ Abs(a.X - b.X) < d /\ Abs(a.Y - b.Y) < d

NoNearDuplicates(ms) ==
    \A i, j \in 1..Len(ms) : i # j => ~NearEachOther(ms[i], ms[j])

\* The fields a near-duplicate overwrite writes.
Written(m) ==
    <<m.X, m.Y, m.W, m.H, m.Score, m.Landmarks, m.Embeddings, m.SubjectUID>>

\* An automated call: not one a user makes by hand.
AutomatedCall(c) ==
    \/ c.op = UOCM /\ c.id = 0 /\ c.m.MarkerSrc # SrcManual
    \/ c.op = "SetFace"
    \/ c.op = "ClearFace"

\* C1: no automated operation (UpdateOrCreateMarker with a candidate that
\* is not manual, SetFace, ClearFace) changes the persisted SubjectUID of a
\* marker whose SubjectSrc is manual and whose SubjectUID is not empty.
C1_ManualSubjectKept ==
    [][\A i \in 1..Len(markers) :
        (/\ markers[i].SubjectSrc = SrcManual
         /\ markers[i].SubjectUID # ""
         /\ AutomatedCall(call'))
        => markers'[i].SubjectUID = markers[i].SubjectUID]_vars

\* C2: an UpdateOrCreateMarker call with a new candidate, on a store where
\* no two markers of a file are within the tolerance of each other, leaves
\* such a store.
C2_OneMarkerPerPosition ==
    [][(/\ call'.op = UOCM /\ call'.id = 0
        /\ NoNearDuplicates(markers))
       => NoNearDuplicates(markers')]_vars

\* C3: once a new candidate of priority p has written a marker (inserted
\* it or overwritten it), the next new candidate, a near-duplicate of that
\* marker with a priority strictly lower than p, does not change the
\* geometry, score, landmarks, embeddings and subject link written.
C3_HigherPriorityWins ==
    [][(/\ call.op = UOCM /\ call.id = 0 /\ call.err = NoError
        /\ call.path \in {"create", "overwrite"}
        /\ call'.op = UOCM /\ call'.id = 0
        /\ NearDuplicate(markers, call'.m) = call.ret.ID
        /\ SrcPriority(call'.m.MarkerSrc) < SrcPriority(call.m.MarkerSrc))
       => Written(markers'[call.ret.ID]) = Written(markers[call.ret.ID])]_vars

\* A marker of the candidate's file within the window whose MarkerSrc has
\* a strictly higher priority than the candidate's.
HigherPriorityNear(ms, m) ==
    {i \in 1..Len(ms) :
        /\ InWindow(ms[i], m)
        /\ SrcPriority(ms[i].MarkerSrc) > SrcPriority(m.MarkerSrc)}

C5_OverwriteUpgradesProvenance ==
    [][(/\ call'.op = UOCM /\ call'.id = 0 /\ call'.err = NoError
        /\ NearDuplicate(markers, call'.m) # 0
        /\ NearDuplicate(markers, call'.m) \notin HigherPriorityNear(markers, call'.m))
       => (/\ Len(markers') = Len(markers)
           /\ Written(markers'[NearDuplicate(markers, call'.m)])
                 = Written(call'.m)
           /\ markers'[NearDuplicate(markers, call'.m)].MarkerSrc
                 = call'.m.MarkerSrc)]_vars

\* C6: Save and Create with a position that is zero or out of range return
\* the invalid-position error and leave the store as it was; a marker they
\* persist (no error) has a valid position and is the row of its ID.
C6_SaveCreateValidate ==
    [][call'.op \in {"Save", "Create"}
       => (/\ ~ValidPosition(call'.m)
               => (/\ call'.err = "invalid position"
                   /\ markers' = markers
                   /\ faces' = faces
                   /\ subjects' = subjects)
           /\ call'.err = NoError
               => (/\ ValidPosition(call'.m)
                   /\ call'.ret.ID \in 1..Len(markers')
                   /\ markers'[call'.ret.ID] = call'.ret
                   /\ Written(call'.ret) = Written(call'.m)))]_vars

C6_Witness ==
    /\ call.op \in {"Save", "Create"}
    /\ ~ValidPosition(call.m)
    /\ call.err = "invalid position"
    /\ Len(markers) > 0

\* C7: every persisted marker has a valid position.
C7_GeometryInvariant ==
    \A i \in 1..Len(markers) : ValidPosition(markers[i])

\* The marker has a manual subject and the face struct another one.
Conflict(M, F) ==
    /\ M.MarkerType = MarkerFace
    /\ M.SubjectSrc = SrcManual /\ M.SubjectUID # ""
    /\ F # NilFace /\ F.SubjectUID # "" /\ F.SubjectUID # M.SubjectUID

\* C8: SetFace(M, F, d) on a face marker M with a manual subject and a face
\* F bound to another subject calls F's collision reporter once, with M's
\* embeddings, changes no persisted marker or face, and returns
\* updated = false, with no error but the reporter's.
C8_ConflictSafety ==
    [][(call'.op = "SetFace" /\ Conflict(markers[call'.id], call'.f))
       => (/\ call'.reports = << <<call'.f.ID, markers[call'.id].Embeddings>> >>
           /\ markers' = markers
           /\ faces' = faces
           /\ call'.updated = FALSE
           /\ call'.err \in {NoError, "collision"})]_vars

C8_Witness ==
    /\ call.op = "SetFace"
    /\ Conflict(markers[call.id], call.f)
    /\ Len(call.reports) = 1
    /\ call.err = NoError

\* C9: a SetFace(M, F, d) right after a SetFace(M, F, d) that returned no
\* error and left M matched to F changes no field of M but MatchedAt, does
\* not change F's persisted SubjectUID, and returns updated = false.
C9_SetFaceIdempotent ==
    [][(/\ call.op = "SetFace" /\ call.err = NoError
        /\ markers[call.id].FaceID = call.f.ID
        /\ call'.op = "SetFace" /\ call'.id = call.id
        /\ call'.f.ID = call.f.ID /\ call'.arg = call.arg)
       => (/\ markers'[call.id] =
                 [markers[call.id] EXCEPT
                     !.MatchedAt = markers'[call.id].MatchedAt]
           /\ faces'[call.f.ID].SubjectUID = faces[call.f.ID].SubjectUID
           /\ call'.updated = FALSE)]_vars

\* C10: no SetFace or SyncSubject call changes a persisted face SubjectUID
\* that is not empty.
C10_FaceSubjectAuthoritative ==
    [][\A k \in DOMAIN faces :
        (faces[k].SubjectUID # "" /\ call'.op \in {"SetFace", "SyncSubject"})
        => faces'[k].SubjectUID = faces[k].SubjectUID]_vars

\* The call ran a SyncSubject pass to its end on its marker, and the marker
\* has a face and a subject as the pass leaves it.
SyncedCall(c) ==
    /\ c.err = NoError
    /\ \/ c.op = "SyncSubject"
       \/ c.op = "SaveForm" /\ c.arg.SubjectSrc = SrcManual
                            /\ TrimSpace(c.arg.MarkerName) # ""
       \/ c.op = "SetFace" /\ c.path = "match"
    /\ c.ret.MarkerType = MarkerFace
    /\ c.ret.FaceID # NoFace
    /\ c.ret.SubjectUID # ""

\* The other markers of the face whose subject is automatic.
Siblings(ms, m) ==
    {i \in 1..Len(ms) :
        /\ ms[i].ID # m.ID
        /\ ms[i].FaceID = m.FaceID
        /\ ms[i].SubjectSrc = SrcAuto}

\* C11: after a successful SyncSubject pass on a face marker M with a face
\* F and a subject S (run by SaveForm for a manual name, by SyncSubject
\* itself, or by SetFace), every other persisted marker with FaceID = F and
\* an automatic SubjectSrc has SubjectUID = S.
C11_SiblingsConverge ==
    [][SyncedCall(call')
       => \A i \in Siblings(markers', call'.ret) :
             markers'[i].SubjectUID = call'.ret.SubjectUID]_vars

\* The marker as a ClearFace at time t leaves it.
Detached(m, t) ==
    [m EXCEPT !.FaceID = NoFace, !.FaceDist = -1, !.MatchedAt = t,
              !.SubjectUID = IF m.SubjectSrc = SrcAuto THEN "" ELSE @]

\* C12: ClearFace on a marker with a face stores FaceID = "", FaceDist = -1
\* and a new MatchedAt in one update (when the update fails none of them is
\* stored), clears SubjectUID exactly when SubjectSrc is automatic, leaves
\* the SubjectUID and the SubjectSrc of a manual subject as they were, and
\* changes nothing else.
C12_ClearFaceDetaches ==
    [][(call'.op = "ClearFace" /\ markers[call'.id].FaceID # NoFace)
       => (/\ call'.updated = TRUE
           /\ faces' = faces /\ subjects' = subjects
           /\ now' > now
           /\ call'.err = NoError
               => markers' = [markers EXCEPT
                                 ![call'.id] = Detached(@, now')]
           /\ call'.err # NoError => markers' = markers)]_vars

C12_Witness ==
    /\ call.op = "ClearFace" /\ call.updated /\ call.err = NoError
    /\ markers[call.id].FaceID = NoFace
    /\ markers[call.id].FaceDist = -1
    /\ markers[call.id].MatchedAt = now
    /\ markers[call.id].SubjectSrc = SrcManual
    /\ markers[call.id].SubjectUID # ""

\* The marker has no name, no face and no subject, and its SubjectSrc is src.
SubjectCleared(m, src) ==
    /\ m.MarkerName = ""
    /\ m.FaceID = NoFace
    /\ m.FaceDist = -1
    /\ m.SubjectUID = ""
    /\ m.SubjectSrc = src

\* C13: after a ClearSubject(src) that returned no error, the marker in
\* memory and the marker as persisted have no name, no face (FaceDist -1)
\* and no subject, and SubjectSrc = src, whether the marker's face was found
\* or not and whatever the collision reporter answered.
C13_ClearSubjectClears ==
    [][(call'.op = "ClearSubject" /\ call'.err = NoError)
       => (/\ SubjectCleared(call'.ret, call'.arg)
           /\ SubjectCleared(markers'[call'.id], call'.arg))]_vars

\* C14: every persisted marker that is not invalid has a Score of at least
\* 100, after markers made from detections of any score are ingested by
\* UpdateOrCreateMarker and edited by SaveForm.
C14_ValidMarkerScore ==
    \A i \in 1..Len(markers) :
        ~markers[i].MarkerInvalid => markers[i].Score >= 100

\* The errors of the tests of the arguments.
ValidationErrors == {"face is nil", "not a face marker", "invalid position"}

\* C15: a call of SetFace, Save, Create, SaveForm or UpdateOrCreateMarker
\* that returns a validation error (no face, not a face marker, a position
\* that is zero or out of range) has created or changed no persisted
\* marker, face or subject.
C15_ValidationNoSideEffects ==
    [][call'.err \in ValidationErrors
       => (/\ markers' = markers
           /\ faces' = faces
           /\ subjects' = subjects)]_vars

\* The call returned an error of the storage or of the collision reporter.
FailedCall(c) ==
    /\ c.op \in {"SetFace", "ClearFace", "ClearSubject", "SaveForm"}
    /\ c.err \notin {NoError} \cup ValidationErrors

\* C16: a SetFace, ClearFace, ClearSubject or SaveForm call that returns a
\* storage error or an error of the collision reporter leaves the marker's
\* persisted row, and every other persisted marker, face and subject, as
\* they were before the call.
C16_NoPartialCommit ==
    [][FailedCall(call')
       => (/\ markers' = markers
           /\ faces' = faces
           /\ subjects' = subjects)]_vars

\* The markers of m's file within the tolerance of m's center.
AtPosition(ms, m) == {i \in 1..Len(ms) : NearEachOther(ms[i], m)}

\* Two UpdateOrCreateMarker calls with new candidates next to each other
\* that both started on a store without a near-duplicate and have both
\* returned.
RacedIngest(a, b) ==
    /\ a.state = "returned" /\ b.state = "returned"
    /\ a.op = UOCM /\ b.op = UOCM
    /\ a.id = 0 /\ b.id = 0
    /\ NearEachOther(a.m, b.m)
    /\ NearDuplicate(a.before, a.m) = 0
    /\ NearDuplicate(b.before, b.m) = 0

\* C17: when two UpdateOrCreateMarker calls with new candidates of one file
\* within the tolerance of each other run side by side on a store without a
\* near-duplicate, only one marker exists at that position once both have
\* returned.
C17_OneMarkerAfterRace ==
    \A v, w \in Workers :
        (v # w /\ RacedIngest(pending[v], pending[w]))
        => Cardinality(AtPosition(markers, pending[v].m)) <= 1

\* The marker has no face and a manual subject.
Faceless(m) == m.FaceID = NoFace /\ m.SubjectSrc = SrcManual

LowQuality(m) == m.Size < ClusterMinSize \/ m.Score < ClusterMinScore

\* C18: GetFace on a marker with no face and a manual subject creates a
\* face row (and sets the marker's FaceID to its id) only when the marker's
\* Size and Score are at least the cluster minima; when one of them is
\* below its minimum it returns nil, creates no face row, changes no row
\* and leaves the marker's FaceID empty.
C18_FaceOnlyForQuality ==
    [][(call'.op = "GetFace" /\ Faceless(markers[call'.id]))
       => (/\ DOMAIN faces' # DOMAIN faces
               => (/\ ~LowQuality(markers[call'.id])
                   /\ call'.f # NilFace
                   /\ call'.f.ID \in DOMAIN faces' \ DOMAIN faces
                   /\ call'.ret.FaceID = call'.f.ID)
           /\ LowQuality(markers[call'.id])
               => (/\ call'.f = NilFace
                   /\ faces' = faces
                   /\ markers' = markers
                   /\ call'.ret.FaceID = NoFace))]_vars

C18_Witness ==
    /\ call.op = "GetFace" /\ call.path = "new"
    /\ call.f # NilFace
    /\ call.ret.Size >= ClusterMinSize /\ call.ret.Score >= ClusterMinScore
    /\ call.ret.SubjectSrc = SrcManual
    /\ call.ret.FaceID = call.f.ID
    /\ call.f.ID \notin FaceIDs
    /\ call.f.ID \in DOMAIN faces

\* The bulk updates of the related markers among the statements of a call.
BulkUpdates(p) ==
    {s \in {(p.done \o p.stmts)[i] : i \in 1..Len(p.done \o p.stmts)} :
        s.stmt = "UpdateRelated"}

\* The call a is a SyncSubject pass with a bulk update for the face of its
\* marker, and the call b, started while another call was running, is a
\* ClearFace or a SetFace on the marker j, one of the related markers when
\* a started.
SiblingRace(a, b, j) ==
    /\ a.state # "idle" /\ b.state # "idle"
    /\ a.op = "SyncSubject" /\ b.op \in {"ClearFace", "SetFace"}
    /\ BulkUpdates(a) # {}
    /\ b.during # {}
    /\ b.id = j /\ j # a.id
    /\ j \in DOMAIN a.before
    /\ a.before[j].FaceID = a.before[a.id].FaceID
    /\ a.before[j].SubjectSrc = SrcAuto

FullyCleared(r) ==
    /\ r.FaceID = NoFace
    /\ r.FaceDist = -1
    /\ r.SubjectSrc = SrcAuto => r.SubjectUID = ""

FullyLinked(r, faceID, subjectUID) ==
    /\ r.FaceID = faceID
    /\ r.FaceDist >= 0
    /\ r.SubjectUID = subjectUID

\* The row r of a sibling is fully cleared, or fully linked with the subject
\* the bulk update of the call a propagates, or, as long as that update has
\* not been carried out, fully linked with the subject old it had when a
\* started.
WholeUpdates(a, r, old) ==
    \A s \in BulkUpdates(a) :
        \/ FullyCleared(r)
        \/ FullyLinked(r, s.key, s.vals)
        \/ /\ s \in {a.stmts[i] : i \in 1..Len(a.stmts)}
           /\ FullyLinked(r, s.key, old.SubjectUID)

\* C19: when the bulk update of SyncSubject for the siblings of a face F
\* interleaves with a ClearFace or a SetFace on one of those siblings, every
\* persisted state of that sibling is either fully cleared (FaceID empty,
\* FaceDist -1, SubjectUID empty for automatic provenance) or fully linked
\* (FaceID F with a distance and the propagated SubjectUID).
C19_SiblingWholeUpdates ==
    \A v \in Workers, w \in Workers, j \in DOMAIN markers :
        SiblingRace(pending[v], pending[w], j) =>
            WholeUpdates(pending[v], markers[j], pending[v].before[j])

\* The distances from the face's embedding to the embeddings of its length.
Distances(embeddings, faceEmbedding) ==
    {EuclideanDistance(embeddings[i], faceEmbedding) :
        i \in {k \in 1..Len(embeddings) :
                Len(embeddings[k]) = Len(faceEmbedding)}}

\* A SetFace call without a distance that stored the match.
MatchedWithoutDist ==
    /\ call'.op = "SetFace"
    /\ call'.arg = -1
    /\ call'.path = "match"
    /\ call'.err = NoError

\* C20: SetFace called with dist = -1, neither aborted nor short-circuited,
\* sets FaceDist to the smallest distance between the face's embedding and
\* the marker's embeddings of the same length, skipping those of another
\* length; when the marker has no embedding of that length, FaceDist stays
\* -1 and FaceID is still set to the face's id.
C20_SmallestMatchingDistance ==
    [][MatchedWithoutDist =>
        LET D == Distances(markers[call'.id].Embeddings, call'.f.Embedding)
            m == markers'[call'.id]
        IN /\ m.FaceID = call'.f.ID
           /\ call'.ret.FaceID = call'.f.ID
           /\ m.FaceDist = (IF D = {} THEN -1 ELSE Least(D))
           /\ call'.ret.FaceDist = m.FaceDist]_vars

\* One marker with embeddings of lengths 1, 2 and 2 matched at the smaller
\* of the two distances, the other with one embedding of length 1 matched
\* without a distance.
C20_Witness ==
    /\ call.op = "SetFace" /\ call.arg = -1
    /\ call.path = "match" /\ call.err = NoError
    /\ \E i \in 1..Len(markers), j \in 1..Len(markers) :
        /\ markers[i].Embeddings = E3
        /\ markers[i].FaceID = "F1" /\ markers[i].FaceDist = 5
        /\ markers[j].Embeddings = E4
        /\ markers[j].FaceID = "F1" /\ markers[j].FaceDist = -1

====
